---- MODULE Spec2Model ----
(***************************************************************************)
(* Talk2Tables browser client.                                             *)
(*                                                                         *)
(* Two React views are modelled, each for one lifetime (mount, events,     *)
(* unmount): the chat view (frontend/src/App.js, function Chat) and the    *)
(* configuration view (frontend/src/TableConfig.js, function TableConfig). *)
(* A behaviour of Spec is one lifetime of either view.  Every event        *)
(* handler and every continuation after an `await` is one atomic action,   *)
(* together with the effects React runs when the updated state is          *)
(* committed.  The HTTP service is the environment: a request is sent, the *)
(* service handles it at some later moment (taking its snapshot then), and *)
(* the client handles the answer at some still later moment, in any order  *)
(* among the requests that are in flight.  The state of a view that has    *)
(* been unmounted is gone: its variables go back to their idle values, its *)
(* requests stay in flight, and its setters do nothing from then on.       *)
(*                                                                         *)
(* Spec follows the configuration view without its section of the Excel    *)
(* files, which shares no state with the section of the PostgreSQL tables; *)
(* SpecConfigExcel follows the view with both sections, SpecUpload the     *)
(* section of the Excel files with its upload button, SpecRequests either  *)
(* view with the requests a user can send and no delete, and SpecPolling   *)
(* the polling of the configuration view under fairness.  SpecViz is one   *)
(* rendering of the rows of an answer: determineChartType and              *)
(* DataVisualization as functions of the rowset.                           *)
(***************************************************************************)
EXTENDS Integers, Sequences, FiniteSets, TLC

VARIABLES
    \* the HTTP service
    srvOrder,          \* configured PostgreSQL tables, in catalog order
    srvDesc,           \* name -> "analyzing" | "ready", for the configured ones
    srvExcel,          \* uploaded Excel tables, in catalog order
    \* chat view (App.js, Chat)
    chatMounted,
    messages,
    input,
    isLoading,
    availableTables,
    excelTables,
    expandedMessages,
    chatInterval,      \* the setInterval of App.js:196 is armed
    chatPosts,         \* POST /api/chat in flight (bag)
    chatTableGets,     \* GET /api/tables issued by Chat.loadTables (bag)
    chatExcelGets,     \* GET /api/excel-tables issued by Chat.loadExcelTables (bag)
    nSubmits,          \* submit events so far
    nChatTicks,        \* firings of the 30 s interval so far
    \* configuration view (TableConfig.js, TableConfig)
    cfgMounted,
    tables,
    cfgAvailableTables,
    selectedTable,
    loadingStates,
    addingTable,
    pollInterval,      \* the setInterval of TableConfig.js:171 is armed
    cfgTableGets,      \* GET /api/tables issued by TableConfig.loadTables (bag)
    cfgAvailGets,      \* GET /api/available-tables in flight (bag)
    cfgAdds,           \* POST /api/tables in flight (bag)
    cfgDeletes,        \* DELETE /api/tables/<name> in flight (bag)
    nPollTicks,        \* firings of the 2 s interval so far
    nAdds,             \* add clicks so far
    nDeletes,          \* delete clicks so far, of tables and of spreadsheets
    cfgExcelTables,    \* TableConfig's excelTables
    cfgExcelGets,      \* GET /api/excel-tables issued by TableConfig.loadExcelTables (bag)
    cfgExcelDeletes,   \* DELETE /api/excel-tables/<name> in flight (bag)
    uploadingExcel,
    error,
    cfgUploads,        \* POST /api/upload-excel in flight (bag)
    nUploads,          \* file choices so far
    \* one rendering of a rowset (App.js, determineChartType and DataVisualization)
    vizData,           \* the rowset: message.data
    vizChartInfo,      \* what determineChartType returned for it
    vizChart,          \* what DataVisualization rendered for it
    vizStep            \* "idle", "given", "inferred", "rendered", "rerendered"

srvVars == <<srvOrder, srvDesc, srvExcel>>
chatVars == <<chatMounted, messages, input, isLoading, availableTables, excelTables,
              expandedMessages, chatInterval, chatPosts, chatTableGets, chatExcelGets,
              nSubmits, nChatTicks>>
cfgUploadVars == <<uploadingExcel, error, cfgUploads, nUploads>>
cfgExcelVars == <<cfgExcelTables, cfgExcelGets, cfgExcelDeletes, cfgUploadVars>>
cfgTableVars == <<tables, cfgAvailableTables, selectedTable, loadingStates, addingTable,
                  pollInterval, cfgTableGets, cfgAvailGets, cfgAdds, cfgDeletes,
                  nPollTicks, nAdds>>
cfgVars == <<cfgMounted, cfgTableVars, nDeletes, cfgExcelVars>>
vizVars == <<vizData, vizChartInfo, vizChart, vizStep>>
vars == <<srvVars, chatVars, cfgVars, vizVars>>

----------------------------------------------------------------------------
\* Bounds of the model.

MaxSubmits == 2
MaxChatTicks == 1
MaxPollTicks == 1
MaxAdds == 1
MaxDeletes == 1
MaxUploads == 1
MaxPollsInFlight == 2

\* The tables of the database and the spreadsheets that can be uploaded.
PgNames == {"t1", "t2"}
ExcelNames == {"x1", "x2"}

\* What the user can type into the question field.
Inputs == {"", "  ", " q "}

----------------------------------------------------------------------------
\* Bags of requests in flight: a function from the distinct requests to the
\* number of copies.

EmptyBag == [x \in {} |-> 0]

BagAdd(b, e) ==
    [x \in DOMAIN b \cup {e} |-> IF x \in DOMAIN b
                                   THEN (IF x = e THEN b[x] + 1 ELSE b[x])
                                   ELSE 1]

BagRemove(b, e) ==
    IF b[e] > 1
    THEN [x \in DOMAIN b |-> IF x = e THEN b[x] - 1 ELSE b[x]]
    ELSE [x \in DOMAIN b \ {e} |-> b[x]]

RECURSIVE SumOver(_, _)
SumOver(b, S) ==
    IF S = {} THEN 0
    ELSE LET e == CHOOSE x \in S : TRUE IN b[e] + SumOver(b, S \ {e})

BagSize(b) == SumOver(b, DOMAIN b)

----------------------------------------------------------------------------
\* The HTTP service (the repository's backend, not under frontend/src): the
\* response shapes of the interface section of the specification.

\* The description of a table whose analysis has not finished.
Sentinel == "Analyzing table structure..."

DescriptionOf(n) == IF srvDesc[n] = "analyzing" THEN Sentinel ELSE "Table " \o n

FileOf(n) == n \o ".xlsx"

ExpiresOf(n) == "2025-01-01T00:00:00"

\* GET /api/tables
TableCatalog == [i \in DOMAIN srvOrder |->
                    [name |-> srvOrder[i], description |-> DescriptionOf(srvOrder[i])]]

\* GET /api/excel-tables
ExcelCatalog == [i \in DOMAIN srvExcel |->
                    [name |-> srvExcel[i], original_filename |-> FileOf(srvExcel[i]),
                     expires_at |-> ExpiresOf(srvExcel[i])]]

IsUnconfigured(n) == srvDesc[n] = "absent"

\* GET /api/available-tables: the tables of the database not configured yet
AvailableCatalog == SelectSeq(<<"t1", "t2">>, IsUnconfigured)

\* A GET in flight: sent, then answered by the service ("ok" with the snapshot it
\* took, or "fail"), then handled by the client.  origin names the caller whose
\* continuation runs after the handling.
SentGet(origin) == [phase |-> "sent", data |-> <<>>, origin |-> origin]

OkGet(r, snapshot) == [phase |-> "ok", data |-> snapshot, origin |-> r.origin]

FailGet(r) == [phase |-> "fail", data |-> <<>>, origin |-> r.origin]

\* The service answers the GET r of the bag with its catalog, or the call fails.
ServeGet(bag, r, catalog) ==
    {BagAdd(BagRemove(bag, r), OkGet(r, catalog)), BagAdd(BagRemove(bag, r), FailGet(r))}

\* The answers the service can give to a question.
PreviewRows == 5

SampleRows(n) == [i \in 1..n |-> [id |-> i]]

Rowsets == {SampleRows(1), SampleRows(PreviewRows + 1)}

Answers == {[answer |-> "a", sql_query |-> "SELECT 1", data |-> rs] : rs \in Rowsets}

\* The failures of a call: without a response body, with an empty detail, with a
\* detail text.
Failures == {[hasDetail |-> FALSE, detail |-> ""],
             [hasDetail |-> TRUE, detail |-> ""],
             [hasDetail |-> TRUE, detail |-> "Table not found"]}

\* An uploaded spreadsheet expires on the service.
SrvExcelExpire(n) ==
    /\ \E i \in DOMAIN srvExcel : srvExcel[i] = n
    /\ srvExcel' = SelectSeq(srvExcel, LAMBDA x : x # n)
    /\ UNCHANGED <<srvOrder, srvDesc, chatVars, cfgVars, vizVars>>

\* The service finishes the analysis of a configured table.
SrvAnalysisDone(n) ==
    /\ srvDesc[n] = "analyzing"
    /\ srvDesc' = [srvDesc EXCEPT ![n] = "ready"]
    /\ UNCHANGED <<srvOrder, srvExcel, chatVars, cfgVars, vizVars>>

----------------------------------------------------------------------------
\* Chat view: frontend/src/App.js, function Chat.

\* String.prototype.trim on the texts of Inputs.
Trim(s) == CASE s = "  " -> ""
             [] s = " q " -> "q"
             [] OTHER -> s

NoSelectionText == "Please select at least one table to query."

GenericErrorText == "Sorry, there was an error processing your request."

\* The entries of the conversation log.  A field a JavaScript object does not
\* have is the empty string, the empty sequence or FALSE here.
UserMessage(text) ==
    [type |-> "user", content |-> text, sql |-> "", data |-> <<>>, showSql |-> FALSE]

ErrorMessage(text) ==
    [type |-> "error", content |-> text, sql |-> "", data |-> <<>>, showSql |-> FALSE]

BotMessage(r) ==
    [type |-> "bot", content |-> r.answer, sql |-> r.sql_query, data |-> r.data,
     showSql |-> FALSE]

\* error.response?.data?.detail || fallback: a missing and an empty detail are
\* both falsy.
DetailOr(r, fallback) == IF r.hasDetail /\ r.detail # "" THEN r.detail ELSE fallback

\* A POST /api/chat in flight.
SentPost(text, names) ==
    [phase |-> "sent", message |-> text, tables |-> names, answer |-> "",
     sql_query |-> "", data |-> <<>>, hasDetail |-> FALSE, detail |-> ""]

IsSelected(table) == table.selected

\* list.filter(table => table.selected).map(table => table.name)
SelectedNames(list) ==
    LET chosen == SelectSeq(list, IsSelected)
    IN [i \in DOMAIN chosen |-> chosen[i].name]

AllSelectedTablesExcelFirst == SelectedNames(excelTables) \o SelectedNames(availableTables)

\* [...selectedPgTables, ...selectedExcelTables]
AllSelectedTables == SelectedNames(availableTables) \o SelectedNames(excelTables)

\* loadTables: the state set from a response
ChatTablesFrom(data) ==
    [i \in DOMAIN data |-> [name |-> data[i].name, selected |-> FALSE,
                            type |-> "postgresql"]]

ChatExcelAppended(data) ==
    excelTables \o [i \in DOMAIN data |-> [name |-> data[i].name,
                                           original_filename |-> data[i].original_filename,
                                           expires_at |-> data[i].expires_at,
                                           selected |-> FALSE]]

\* loadExcelTables: the state set from a response
ChatExcelFrom(data) ==
    [i \in DOMAIN data |-> [name |-> data[i].name,
                            original_filename |-> data[i].original_filename,
                            expires_at |-> data[i].expires_at,
                            selected |-> FALSE]]

ToggleIn(list, tableName) ==
    [i \in DOMAIN list |-> IF list[i].name = tableName
                           THEN [list[i] EXCEPT !.selected = ~list[i].selected]
                           ELSE list[i]]

\* The user clicks the button of a listed table.
ToggleTableSelection(tableName, isExcel) ==
    /\ chatMounted
    /\ IF isExcel
       THEN /\ \E i \in DOMAIN excelTables : excelTables[i].name = tableName
            /\ excelTables' = ToggleIn(excelTables, tableName)
            /\ UNCHANGED availableTables
       ELSE /\ \E i \in DOMAIN availableTables : availableTables[i].name = tableName
            /\ availableTables' = ToggleIn(availableTables, tableName)
            /\ UNCHANGED excelTables
    /\ UNCHANGED <<chatMounted, messages, input, isLoading, expandedMessages,
                   chatInterval, chatPosts, chatTableGets, chatExcelGets, nSubmits,
                   nChatTicks, srvVars, cfgVars, vizVars>>

SubmitEnabledWhileLoading == chatMounted

\* The form controls are disabled while a request is outstanding.
SubmitEnabled == chatMounted /\ ~isLoading

\* The user edits the question field.
SetInput(text) ==
    /\ SubmitEnabled
    /\ text # input
    /\ input' = text
    /\ UNCHANGED <<chatMounted, messages, isLoading, availableTables, excelTables,
                   expandedMessages, chatInterval, chatPosts, chatTableGets,
                   chatExcelGets, nSubmits, nChatTicks, srvVars, cfgVars, vizVars>>

SubmitBlankClearsInput ==
    /\ Trim(input) = ""
    /\ input' = ""
    /\ UNCHANGED <<messages, isLoading, chatPosts>>

\* handleSubmit, a blank question: returns at once
SubmitBlank ==
    /\ Trim(input) = ""
    /\ UNCHANGED <<messages, input, isLoading, chatPosts>>

SubmitNoSelectionFallsThrough ==
    /\ Trim(input) # ""
    /\ AllSelectedTables = <<>>
    /\ messages' = Append(Append(messages, ErrorMessage(NoSelectionText)),
                          UserMessage(input))
    /\ input' = ""
    /\ isLoading' = TRUE
    /\ chatPosts' = BagAdd(chatPosts, SentPost(input, AllSelectedTables))

\* handleSubmit, nothing selected: one error entry, no request
SubmitNoSelection ==
    /\ Trim(input) # ""
    /\ AllSelectedTables = <<>>
    /\ messages' = Append(messages, ErrorMessage(NoSelectionText))
    /\ UNCHANGED <<input, isLoading, chatPosts>>

SubmitDispatchStaysEnabled ==
    /\ Trim(input) # ""
    /\ AllSelectedTables # <<>>
    /\ messages' = Append(messages, UserMessage(input))
    /\ input' = ""
    /\ isLoading' = isLoading
    /\ chatPosts' = BagAdd(chatPosts, SentPost(input, AllSelectedTables))

\* handleSubmit up to its await: the user entry, the cleared field, the request
SubmitDispatch ==
    /\ Trim(input) # ""
    /\ AllSelectedTables # <<>>
    /\ messages' = Append(messages, UserMessage(input))
    /\ input' = ""
    /\ isLoading' = TRUE
    /\ chatPosts' = BagAdd(chatPosts, SentPost(input, AllSelectedTables))

HandleSubmit ==
    /\ SubmitEnabled
    /\ nSubmits < MaxSubmits
    /\ nSubmits' = nSubmits + 1
    /\ (SubmitBlank \/ SubmitNoSelection \/ SubmitDispatch)
    /\ UNCHANGED <<chatMounted, availableTables, excelTables, expandedMessages,
                   chatInterval, chatTableGets, chatExcelGets, nChatTicks, srvVars,
                   cfgVars, vizVars>>

\* The outcomes of a POST /api/chat: an answer of the service, or a failure.
\* Neither depends on the state of the service.
Outcome(r, o) ==
    [r EXCEPT !.phase = o.phase, !.answer = o.answer, !.sql_query = o.sql_query,
              !.data = o.data, !.hasDetail = o.hasDetail, !.detail = o.detail]

Outcomes ==
    {[phase |-> "ok", answer |-> a.answer, sql_query |-> a.sql_query, data |-> a.data,
      hasDetail |-> FALSE, detail |-> ""] : a \in Answers}
    \cup
    {[phase |-> "fail", answer |-> "", sql_query |-> "", data |-> <<>>,
      hasDetail |-> f.hasDetail, detail |-> f.detail] : f \in Failures}

SystemMessageGenericOnly(r) ==
    IF r.phase = "ok" THEN BotMessage(r) ELSE ErrorMessage(GenericErrorText)

\* What handleSubmit appends after its await.
SystemMessage(r) ==
    IF r.phase = "ok" THEN BotMessage(r)
    ELSE ErrorMessage(DetailOr(r, GenericErrorText))

\* handleSubmit after its await, with the outcome o of the request: the answer
\* or the error is appended and the controls are enabled again.
ChatSettled(r, o) ==
    /\ r \in DOMAIN chatPosts
    /\ chatPosts' = BagRemove(chatPosts, r)
    /\ IF chatMounted
       THEN /\ messages' = Append(messages, SystemMessage(Outcome(r, o)))
            /\ isLoading' = FALSE
       ELSE UNCHANGED <<messages, isLoading>>
    /\ UNCHANGED <<chatMounted, input, availableTables, excelTables, expandedMessages,
                   chatInterval, chatTableGets, chatExcelGets, nSubmits, nChatTicks,
                   srvVars, cfgVars, vizVars>>

\* The buttons of entry i (1-based here, 0-based in the source).
HasSqlButton(i) == i \in DOMAIN messages /\ messages[i].type = "bot"

HasExpandButton(i) == HasSqlButton(i) /\ Len(messages[i].data) > PreviewRows

ToggleSqlDropsOthers(index) ==
    /\ chatMounted
    /\ HasSqlButton(index)
    /\ messages' = <<[messages[index] EXCEPT !.showSql = ~messages[index].showSql]>>
    /\ UNCHANGED <<chatMounted, input, isLoading, availableTables, excelTables,
                   expandedMessages, chatInterval, chatPosts, chatTableGets,
                   chatExcelGets, nSubmits, nChatTicks, srvVars, cfgVars, vizVars>>

ToggleSql(index) ==
    /\ chatMounted
    /\ HasSqlButton(index)
    /\ messages' = [i \in DOMAIN messages |->
                      IF i = index
                      THEN [messages[i] EXCEPT !.showSql = ~messages[i].showSql]
                      ELSE messages[i]]
    /\ UNCHANGED <<chatMounted, input, isLoading, availableTables, excelTables,
                   expandedMessages, chatInterval, chatPosts, chatTableGets,
                   chatExcelGets, nSubmits, nChatTicks, srvVars, cfgVars, vizVars>>

ToggleExpand(index) ==
    /\ chatMounted
    /\ HasExpandButton(index)
    /\ expandedMessages' = IF index \in expandedMessages
                           THEN expandedMessages \ {index}
                           ELSE expandedMessages \cup {index}
    /\ UNCHANGED <<chatMounted, messages, input, isLoading, availableTables,
                   excelTables, chatInterval, chatPosts, chatTableGets, chatExcelGets,
                   nSubmits, nChatTicks, srvVars, cfgVars, vizVars>>

\* The service answers a catalog request of the chat view.
ChatServeTables(r) ==
    /\ r \in DOMAIN chatTableGets
    /\ r.phase = "sent"
    /\ chatTableGets' \in ServeGet(chatTableGets, r, TableCatalog)
    /\ UNCHANGED <<chatMounted, messages, input, isLoading, availableTables,
                   excelTables, expandedMessages, chatInterval, chatPosts,
                   chatExcelGets, nSubmits, nChatTicks, srvVars, cfgVars, vizVars>>

ChatServeExcel(r) ==
    /\ r \in DOMAIN chatExcelGets
    /\ r.phase = "sent"
    /\ chatExcelGets' \in ServeGet(chatExcelGets, r, ExcelCatalog)
    /\ UNCHANGED <<chatMounted, messages, input, isLoading, availableTables,
                   excelTables, expandedMessages, chatInterval, chatPosts,
                   chatTableGets, nSubmits, nChatTicks, srvVars, cfgVars, vizVars>>

\* loadTables after its await
ChatLoadTablesSettled(r) ==
    /\ r \in DOMAIN chatTableGets
    /\ r.phase # "sent"
    /\ chatTableGets' = BagRemove(chatTableGets, r)
    /\ IF chatMounted /\ r.phase = "ok"
       THEN availableTables' = ChatTablesFrom(r.data)
       ELSE UNCHANGED availableTables
    /\ UNCHANGED <<chatMounted, messages, input, isLoading, excelTables,
                   expandedMessages, chatInterval, chatPosts, chatExcelGets, nSubmits,
                   nChatTicks, srvVars, cfgVars, vizVars>>

\* loadExcelTables after its await
ChatLoadExcelSettled(r) ==
    /\ r \in DOMAIN chatExcelGets
    /\ r.phase # "sent"
    /\ chatExcelGets' = BagRemove(chatExcelGets, r)
    /\ IF chatMounted /\ r.phase = "ok"
       THEN excelTables' = ChatExcelFrom(r.data)
       ELSE UNCHANGED excelTables
    /\ UNCHANGED <<chatMounted, messages, input, isLoading, availableTables,
                   expandedMessages, chatInterval, chatPosts, chatTableGets, nSubmits,
                   nChatTicks, srvVars, cfgVars, vizVars>>

\* The 30 s interval fires loadExcelTables.
ChatIntervalTick ==
    /\ chatInterval
    /\ nChatTicks < MaxChatTicks
    /\ nChatTicks' = nChatTicks + 1
    /\ chatExcelGets' = BagAdd(chatExcelGets, SentGet("interval"))
    /\ UNCHANGED <<chatMounted, messages, input, isLoading, availableTables,
                   excelTables, expandedMessages, chatInterval, chatPosts,
                   chatTableGets, nSubmits, srvVars, cfgVars, vizVars>>

\* The cleanup of the interval effect: clearInterval.
ChatIntervalAfterCleanup == FALSE

\* The chat view is torn down.
ChatUnmount ==
    /\ chatMounted
    /\ chatMounted' = FALSE
    /\ chatInterval' = ChatIntervalAfterCleanup
    /\ messages' = <<>>
    /\ input' = ""
    /\ isLoading' = FALSE
    /\ availableTables' = <<>>
    /\ excelTables' = <<>>
    /\ expandedMessages' = {}
    /\ UNCHANGED <<chatPosts, chatTableGets, chatExcelGets, nSubmits, nChatTicks,
                   srvVars, cfgVars, vizVars>>

ChatNext ==
    \/ \E n \in PgNames : ToggleTableSelection(n, FALSE)
    \/ \E n \in ExcelNames : ToggleTableSelection(n, TRUE)
    \/ \E text \in Inputs : SetInput(text)
    \/ HandleSubmit
    \/ \E r \in DOMAIN chatPosts, o \in Outcomes : ChatSettled(r, o)
    \/ \E i \in DOMAIN messages : ToggleSql(i)
    \/ \E i \in DOMAIN messages : ToggleExpand(i)
    \/ \E r \in DOMAIN chatTableGets : ChatServeTables(r)
    \/ \E r \in DOMAIN chatTableGets : ChatLoadTablesSettled(r)
    \/ \E r \in DOMAIN chatExcelGets : ChatServeExcel(r)
    \/ \E r \in DOMAIN chatExcelGets : ChatLoadExcelSettled(r)
    \/ ChatIntervalTick
    \/ ChatUnmount

----------------------------------------------------------------------------
\* Configuration view: frontend/src/TableConfig.js, function TableConfig.

NoLoadingStates == [n \in {} |-> FALSE]

\* useState(null) of error
NoError == "null"

\* loadingStates[n] is set and true
Pending(states, n) == n \in DOMAIN states /\ states[n]

HasLoadingEntries(states) == DOMAIN states # {}

\* Object.values(loadingStates).some(state => state)
HasLoadingTables(states) == \E n \in DOMAIN states : states[n]

PollingEffectWithoutCleanup(states) == pollInterval \/ HasLoadingTables(states)

\* The polling effect, run when a new loadingStates is committed: the cleanup of
\* the previous run clears its interval, and a new one is set when a table is
\* being analyzed.
PollingEffect(states) == HasLoadingTables(states)

PollIntervalLeaked == pollInterval

\* The cleanup of the polling effect at unmount: clearInterval.
PollIntervalAfterCleanup == FALSE

LoadingStatesMerged(data) ==
    [n \in DOMAIN loadingStates \cup {data[i].name : i \in DOMAIN data} |->
        \/ Pending(loadingStates, n)
        \/ \E i \in DOMAIN data : data[i].name = n /\ data[i].description = Sentinel]

\* loadTables: the loading states derived from a response
LoadingStatesFrom(data) ==
    [n \in {data[i].name : i \in DOMAIN data} |->
        \E i \in DOMAIN data : data[i].name = n /\ data[i].description = Sentinel]

MarkNothing(states, n) == states

\* setLoadingStates(prev => ({ ...prev, [selectedTable]: true }))
MarkLoading(states, n) ==
    [m \in DOMAIN states \cup {n} |-> IF m = n THEN TRUE ELSE states[m]]

IsConfigured(n) == \E i \in DOMAIN tables : tables[i].name = n

NotConfigured(n) == ~IsConfigured(n)

availableUnconfiguredTables == SelectSeq(cfgAvailableTables, NotConfigured)

InSeq(x, s) == \E i \in DOMAIN s : s[i] = x

\* list.map(table => ...): the entry of a name is rendered, with its buttons
PresentInCatalog(list, n) == \E i \in DOMAIN list : list[i].name = n

\* The user picks an option of the dropdown.
SelectTable(n) ==
    /\ cfgMounted
    /\ ~addingTable
    /\ InSeq(n, availableUnconfiguredTables)
    /\ n # selectedTable
    /\ selectedTable' = n
    /\ UNCHANGED <<cfgMounted, tables, cfgAvailableTables, loadingStates, addingTable,
                   pollInterval, cfgTableGets, cfgAvailGets, cfgAdds, cfgDeletes,
                   nPollTicks, nAdds, nDeletes, srvVars, chatVars, vizVars, cfgExcelVars>>

\* A POST /api/tables or a DELETE /api/tables/<name> in flight.
SentCall(n) == [phase |-> "sent", name |-> n]

\* addTable up to its first await
AddTable ==
    /\ cfgMounted
    /\ ~addingTable
    /\ selectedTable # ""
    /\ nAdds < MaxAdds
    /\ nAdds' = nAdds + 1
    /\ addingTable' = TRUE
    /\ cfgAdds' = BagAdd(cfgAdds, SentCall(selectedTable))
    /\ UNCHANGED <<cfgMounted, tables, cfgAvailableTables, selectedTable, loadingStates,
                   pollInterval, cfgTableGets, cfgAvailGets, cfgDeletes, nPollTicks,
                   nDeletes, srvVars, chatVars, vizVars, cfgExcelVars>>

\* The service handles an add: the table is configured and its analysis starts;
\* the call fails when the table is configured already, and may fail anyway.
CfgServeAdd(r) ==
    /\ r \in DOMAIN cfgAdds
    /\ r.phase = "sent"
    /\ \/ /\ srvDesc[r.name] = "absent"
          /\ srvDesc' = [srvDesc EXCEPT ![r.name] = "analyzing"]
          /\ srvOrder' = Append(srvOrder, r.name)
          /\ cfgAdds' = BagAdd(BagRemove(cfgAdds, r), [r EXCEPT !.phase = "ok"])
       \/ /\ cfgAdds' = BagAdd(BagRemove(cfgAdds, r), [r EXCEPT !.phase = "fail"])
          /\ UNCHANGED <<srvDesc, srvOrder>>
    /\ UNCHANGED <<srvExcel, cfgMounted, tables, cfgAvailableTables, selectedTable,
                   loadingStates, addingTable, pollInterval, cfgTableGets, cfgAvailGets,
                   cfgDeletes, nPollTicks, nAdds, nDeletes, chatVars, vizVars, cfgExcelVars>>

\* addTable after the POST succeeded: the field is cleared, the table is marked
\* as being analyzed, and loadTables is called.
AddTableOk(r) ==
    /\ r \in DOMAIN cfgAdds
    /\ r.phase = "ok"
    /\ cfgAdds' = BagRemove(cfgAdds, r)
    /\ cfgTableGets' = BagAdd(cfgTableGets, SentGet("add"))
    /\ IF cfgMounted
       THEN /\ selectedTable' = ""
            /\ loadingStates' = MarkLoading(loadingStates, r.name)
            /\ pollInterval' = PollingEffect(loadingStates')
       ELSE UNCHANGED <<selectedTable, loadingStates, pollInterval>>
    /\ UNCHANGED <<cfgMounted, tables, cfgAvailableTables, addingTable, cfgAvailGets,
                   cfgDeletes, nPollTicks, nAdds, nDeletes, srvVars, chatVars, vizVars, cfgExcelVars>>

\* addTable after the POST failed
AddTableFailed(r) ==
    /\ r \in DOMAIN cfgAdds
    /\ r.phase = "fail"
    /\ cfgAdds' = BagRemove(cfgAdds, r)
    /\ addingTable' = FALSE
    /\ UNCHANGED <<cfgMounted, tables, cfgAvailableTables, selectedTable, loadingStates,
                   pollInterval, cfgTableGets, cfgAvailGets, cfgDeletes, nPollTicks,
                   nAdds, nDeletes, srvVars, chatVars, vizVars, cfgExcelVars>>

\* The 2 s interval fires loadTables.
PollTick ==
    /\ pollInterval
    /\ nPollTicks < MaxPollTicks
    /\ nPollTicks' = nPollTicks + 1
    /\ cfgTableGets' = BagAdd(cfgTableGets, SentGet("poll"))
    /\ UNCHANGED <<cfgMounted, tables, cfgAvailableTables, selectedTable, loadingStates,
                   addingTable, pollInterval, cfgAvailGets, cfgAdds, cfgDeletes, nAdds,
                   nDeletes, srvVars, chatVars, vizVars, cfgExcelVars>>

\* The same firing of the 2 s interval where the interval may fire any number
\* of times: the fetches in flight are bounded instead, and nPollTicks stops
\* counting at MaxPollTicks.
PollTickUnbounded ==
    /\ pollInterval
    /\ BagSize(cfgTableGets) < MaxPollsInFlight
    /\ nPollTicks' = IF nPollTicks < MaxPollTicks THEN nPollTicks + 1 ELSE nPollTicks
    /\ cfgTableGets' = BagAdd(cfgTableGets, SentGet("poll"))
    /\ UNCHANGED <<cfgMounted, tables, cfgAvailableTables, selectedTable, loadingStates,
                   addingTable, pollInterval, cfgAvailGets, cfgAdds, cfgDeletes, nAdds,
                   nDeletes, srvVars, chatVars, vizVars, cfgExcelVars>>

\* The service answers a catalog request of the configuration view.
CfgServeTables(r) ==
    /\ r \in DOMAIN cfgTableGets
    /\ r.phase = "sent"
    /\ cfgTableGets' \in ServeGet(cfgTableGets, r, TableCatalog)
    /\ UNCHANGED <<cfgMounted, tables, cfgAvailableTables, selectedTable, loadingStates,
                   addingTable, pollInterval, cfgAvailGets, cfgAdds, cfgDeletes,
                   nPollTicks, nAdds, nDeletes, srvVars, chatVars, vizVars, cfgExcelVars>>

CfgServeAvailable(r) ==
    /\ r \in DOMAIN cfgAvailGets
    /\ r.phase = "sent"
    /\ cfgAvailGets' \in ServeGet(cfgAvailGets, r, AvailableCatalog)
    /\ UNCHANGED <<cfgMounted, tables, cfgAvailableTables, selectedTable, loadingStates,
                   addingTable, pollInterval, cfgTableGets, cfgAdds, cfgDeletes,
                   nPollTicks, nAdds, nDeletes, srvVars, chatVars, vizVars, cfgExcelVars>>

LoadTablesAppliesAlways(r) == TRUE

\* loadTables: the setters run in the try block, after the awaited GET
\* succeeded; the catch block only logs.
LoadTablesApplies(r) == r.phase = "ok"

\* loadTables after its await, and then what its caller does after awaiting it:
\* addTable enables the add button again, deleteTable calls loadAvailableTables.
\* A failed call is logged and changes nothing.
LoadTablesSettled(r) ==
    /\ r \in DOMAIN cfgTableGets
    /\ r.phase # "sent"
    /\ cfgTableGets' = BagRemove(cfgTableGets, r)
    /\ IF cfgMounted /\ LoadTablesApplies(r)
       THEN /\ tables' = r.data
            /\ loadingStates' = LoadingStatesFrom(r.data)
            /\ pollInterval' = PollingEffect(loadingStates')
       ELSE UNCHANGED <<tables, loadingStates, pollInterval>>
    /\ addingTable' = IF cfgMounted /\ r.origin = "add" THEN FALSE ELSE addingTable
    /\ cfgAvailGets' = IF r.origin = "delete"
                       THEN BagAdd(cfgAvailGets, SentGet("delete"))
                       ELSE cfgAvailGets
    /\ UNCHANGED <<cfgMounted, cfgAvailableTables, selectedTable, cfgAdds, cfgDeletes,
                   nPollTicks, nAdds, nDeletes, srvVars, chatVars, vizVars, cfgExcelVars>>

\* loadAvailableTables after its await
LoadAvailableSettled(r) ==
    /\ r \in DOMAIN cfgAvailGets
    /\ r.phase # "sent"
    /\ cfgAvailGets' = BagRemove(cfgAvailGets, r)
    /\ IF cfgMounted /\ r.phase = "ok"
       THEN cfgAvailableTables' = r.data
       ELSE UNCHANGED cfgAvailableTables
    /\ UNCHANGED <<cfgMounted, tables, selectedTable, loadingStates, addingTable,
                   pollInterval, cfgTableGets, cfgAdds, cfgDeletes, nPollTicks, nAdds,
                   nDeletes, srvVars, chatVars, vizVars, cfgExcelVars>>

\* deleteTable up to its first await: nothing is sent unless the user confirms.
DeleteTable(tableName, confirmed) ==
    /\ cfgMounted
    /\ IsConfigured(tableName)
    /\ nDeletes < MaxDeletes
    /\ nDeletes' = nDeletes + 1
    /\ cfgDeletes' = IF confirmed THEN BagAdd(cfgDeletes, SentCall(tableName))
                     ELSE cfgDeletes
    /\ UNCHANGED <<cfgMounted, tables, cfgAvailableTables, selectedTable, loadingStates,
                   addingTable, pollInterval, cfgTableGets, cfgAvailGets, cfgAdds,
                   nPollTicks, nAdds, srvVars, chatVars, vizVars, cfgExcelVars>>

\* The service handles a delete: the table is no longer configured; the call
\* fails when it is not configured, and may fail anyway.
CfgServeDelete(r) ==
    /\ r \in DOMAIN cfgDeletes
    /\ r.phase = "sent"
    /\ \/ /\ srvDesc[r.name] # "absent"
          /\ srvDesc' = [srvDesc EXCEPT ![r.name] = "absent"]
          /\ srvOrder' = SelectSeq(srvOrder, LAMBDA x : x # r.name)
          /\ cfgDeletes' = BagAdd(BagRemove(cfgDeletes, r), [r EXCEPT !.phase = "ok"])
       \/ /\ cfgDeletes' = BagAdd(BagRemove(cfgDeletes, r), [r EXCEPT !.phase = "fail"])
          /\ UNCHANGED <<srvDesc, srvOrder>>
    /\ UNCHANGED <<srvExcel, cfgMounted, tables, cfgAvailableTables, selectedTable,
                   loadingStates, addingTable, pollInterval, cfgTableGets, cfgAvailGets,
                   cfgAdds, nPollTicks, nAdds, nDeletes, chatVars, vizVars, cfgExcelVars>>

DeleteTableSettledRefreshesAlways(r) ==
    /\ r \in DOMAIN cfgDeletes
    /\ r.phase # "sent"
    /\ cfgDeletes' = BagRemove(cfgDeletes, r)
    /\ cfgTableGets' = BagAdd(cfgTableGets, SentGet("delete"))
    /\ UNCHANGED <<cfgMounted, tables, cfgAvailableTables, selectedTable, loadingStates,
                   addingTable, pollInterval, cfgAvailGets, cfgAdds, nPollTicks, nAdds,
                   nDeletes, srvVars, chatVars, vizVars, cfgExcelVars>>

\* deleteTable after the DELETE: on success loadTables is called, a failure is
\* logged.
DeleteTableSettled(r) ==
    /\ r \in DOMAIN cfgDeletes
    /\ r.phase # "sent"
    /\ cfgDeletes' = BagRemove(cfgDeletes, r)
    /\ cfgTableGets' = IF r.phase = "ok" THEN BagAdd(cfgTableGets, SentGet("delete"))
                       ELSE cfgTableGets
    /\ UNCHANGED <<cfgMounted, tables, cfgAvailableTables, selectedTable, loadingStates,
                   addingTable, pollInterval, cfgAvailGets, cfgAdds, nPollTicks, nAdds,
                   nDeletes, srvVars, chatVars, vizVars, cfgExcelVars>>

\* The configuration view is torn down.
CfgUnmount ==
    /\ cfgMounted
    /\ cfgMounted' = FALSE
    /\ pollInterval' = PollIntervalAfterCleanup
    /\ tables' = <<>>
    /\ cfgAvailableTables' = <<>>
    /\ selectedTable' = ""
    /\ loadingStates' = NoLoadingStates
    /\ addingTable' = FALSE
    /\ cfgExcelTables' = <<>>
    /\ uploadingExcel' = FALSE
    /\ error' = NoError
    /\ UNCHANGED <<cfgTableGets, cfgAvailGets, cfgAdds, cfgDeletes, nPollTicks, nAdds,
                   nDeletes, cfgExcelGets, cfgExcelDeletes, cfgUploads, nUploads,
                   srvVars, chatVars, vizVars>>

ConfigNext ==
    \/ \E n \in PgNames : SelectTable(n)
    \/ AddTable
    \/ \E r \in DOMAIN cfgAdds : CfgServeAdd(r)
    \/ \E r \in DOMAIN cfgAdds : AddTableOk(r)
    \/ \E r \in DOMAIN cfgAdds : AddTableFailed(r)
    \/ PollTick
    \/ \E r \in DOMAIN cfgTableGets : CfgServeTables(r)
    \/ \E r \in DOMAIN cfgTableGets : LoadTablesSettled(r)
    \/ \E r \in DOMAIN cfgAvailGets : CfgServeAvailable(r)
    \/ \E r \in DOMAIN cfgAvailGets : LoadAvailableSettled(r)
    \/ \E n \in PgNames, confirmed \in BOOLEAN : DeleteTable(n, confirmed)
    \/ \E r \in DOMAIN cfgDeletes : CfgServeDelete(r)
    \/ \E r \in DOMAIN cfgDeletes : DeleteTableSettled(r)
    \/ CfgUnmount

----------------------------------------------------------------------------
\* Configuration view, the section of the Excel files.  It shares no state with
\* the section of the PostgreSQL tables.

\* The service answers a catalog request of the section.
CfgServeExcel(r) ==
    /\ r \in DOMAIN cfgExcelGets
    /\ r.phase = "sent"
    /\ cfgExcelGets' \in ServeGet(cfgExcelGets, r, ExcelCatalog)
    /\ UNCHANGED <<cfgMounted, cfgTableVars, nDeletes, cfgExcelTables, cfgExcelDeletes,
                   cfgUploadVars, srvVars, chatVars, vizVars>>

\* loadExcelTables after its await, and then what handleExcelUpload does after
\* awaiting it: its finally block enables the upload button again.  A failed
\* call is logged inside loadExcelTables.
LoadExcelTablesSettled(r) ==
    /\ r \in DOMAIN cfgExcelGets
    /\ r.phase # "sent"
    /\ cfgExcelGets' = BagRemove(cfgExcelGets, r)
    /\ IF cfgMounted /\ r.phase = "ok"
       THEN cfgExcelTables' = r.data
       ELSE UNCHANGED cfgExcelTables
    /\ uploadingExcel' = IF cfgMounted /\ r.origin = "upload" THEN FALSE
                         ELSE uploadingExcel
    /\ UNCHANGED <<cfgMounted, cfgTableVars, nDeletes, cfgExcelDeletes, error,
                   cfgUploads, nUploads, srvVars, chatVars, vizVars>>

DeleteExcelTableUnconfirmed(tableName, confirmed) ==
    /\ cfgMounted
    /\ PresentInCatalog(cfgExcelTables, tableName)
    /\ nDeletes < MaxDeletes
    /\ nDeletes' = nDeletes + 1
    /\ cfgExcelDeletes' = BagAdd(cfgExcelDeletes, SentCall(tableName))
    /\ UNCHANGED <<cfgMounted, cfgTableVars, cfgExcelTables, cfgExcelGets,
                   cfgUploadVars, srvVars, chatVars, vizVars>>

\* deleteExcelTable up to its first await: nothing is sent unless the user
\* confirms.
DeleteExcelTable(tableName, confirmed) ==
    /\ cfgMounted
    /\ PresentInCatalog(cfgExcelTables, tableName)
    /\ nDeletes < MaxDeletes
    /\ nDeletes' = nDeletes + 1
    /\ cfgExcelDeletes' = IF confirmed THEN BagAdd(cfgExcelDeletes, SentCall(tableName))
                          ELSE cfgExcelDeletes
    /\ UNCHANGED <<cfgMounted, cfgTableVars, cfgExcelTables, cfgExcelGets,
                   cfgUploadVars, srvVars, chatVars, vizVars>>

\* The service handles the delete of a spreadsheet: it is no longer listed; the
\* call fails when it is not listed, and may fail anyway.
CfgServeExcelDelete(r) ==
    /\ r \in DOMAIN cfgExcelDeletes
    /\ r.phase = "sent"
    /\ \/ /\ InSeq(r.name, srvExcel)
          /\ srvExcel' = SelectSeq(srvExcel, LAMBDA x : x # r.name)
          /\ cfgExcelDeletes' = BagAdd(BagRemove(cfgExcelDeletes, r),
                                       [r EXCEPT !.phase = "ok"])
       \/ /\ cfgExcelDeletes' = BagAdd(BagRemove(cfgExcelDeletes, r),
                                       [r EXCEPT !.phase = "fail"])
          /\ UNCHANGED srvExcel
    /\ UNCHANGED <<srvOrder, srvDesc, cfgMounted, cfgTableVars, nDeletes, cfgExcelTables,
                   cfgExcelGets, cfgUploadVars, chatVars, vizVars>>

\* deleteExcelTable after the DELETE: on success loadExcelTables is called, a
\* failure is logged.
DeleteExcelTableSettled(r) ==
    /\ r \in DOMAIN cfgExcelDeletes
    /\ r.phase # "sent"
    /\ cfgExcelDeletes' = BagRemove(cfgExcelDeletes, r)
    /\ cfgExcelGets' = IF r.phase = "ok" THEN BagAdd(cfgExcelGets, SentGet("delete"))
                       ELSE cfgExcelGets
    /\ UNCHANGED <<cfgMounted, cfgTableVars, nDeletes, cfgExcelTables, cfgUploadVars,
                   srvVars, chatVars, vizVars>>

UploadErrorText == "Error uploading Excel file"

SentUpload == [phase |-> "sent", hasDetail |-> FALSE, detail |-> ""]

\* handleExcelUpload up to its await.  Without a file it returns at once; with
\* one the button is disabled, the error is cleared and the file is posted.
HandleExcelUpload(hasFile) ==
    /\ cfgMounted
    /\ ~uploadingExcel
    /\ nUploads < MaxUploads
    /\ nUploads' = nUploads + 1
    /\ IF hasFile
       THEN /\ uploadingExcel' = TRUE
            /\ error' = NoError
            /\ cfgUploads' = BagAdd(cfgUploads, SentUpload)
       ELSE UNCHANGED <<uploadingExcel, error, cfgUploads>>
    /\ UNCHANGED <<cfgMounted, cfgTableVars, nDeletes, cfgExcelTables, cfgExcelGets,
                   cfgExcelDeletes, srvVars, chatVars, vizVars>>

\* The service handles an upload: the spreadsheet is listed under a name not in
\* use; or the call fails, with or without a detail.
CfgServeUpload(r) ==
    /\ r \in DOMAIN cfgUploads
    /\ r.phase = "sent"
    /\ \/ \E n \in ExcelNames :
             /\ ~InSeq(n, srvExcel)
             /\ srvExcel' = Append(srvExcel, n)
             /\ cfgUploads' = BagAdd(BagRemove(cfgUploads, r), [r EXCEPT !.phase = "ok"])
       \/ \E f \in Failures :
             /\ cfgUploads' = BagAdd(BagRemove(cfgUploads, r),
                                     [phase |-> "fail", hasDetail |-> f.hasDetail,
                                      detail |-> f.detail])
             /\ UNCHANGED srvExcel
    /\ UNCHANGED <<srvOrder, srvDesc, cfgMounted, cfgTableVars, nDeletes, cfgExcelTables,
                   cfgExcelGets, cfgExcelDeletes, uploadingExcel, error, nUploads,
                   chatVars, vizVars>>

\* handleExcelUpload after the POST succeeded: loadExcelTables is called and
\* awaited; the button stays disabled until it returns.
UploadOk(r) ==
    /\ r \in DOMAIN cfgUploads
    /\ r.phase = "ok"
    /\ cfgUploads' = BagRemove(cfgUploads, r)
    /\ cfgExcelGets' = BagAdd(cfgExcelGets, SentGet("upload"))
    /\ UNCHANGED <<cfgMounted, cfgTableVars, nDeletes, cfgExcelTables, cfgExcelDeletes,
                   uploadingExcel, error, nUploads, srvVars, chatVars, vizVars>>

UploadErrorGenericOnly(r) == UploadErrorText

\* err.response?.data?.detail || 'Error uploading Excel file'
UploadError(r) == DetailOr(r, UploadErrorText)

UploadingExcelKept == uploadingExcel

\* The finally block of handleExcelUpload
UploadingExcelAfterFinally == FALSE

\* handleExcelUpload after the POST failed: the error is shown and the button
\* is enabled again.
UploadFailed(r) ==
    /\ r \in DOMAIN cfgUploads
    /\ r.phase = "fail"
    /\ cfgUploads' = BagRemove(cfgUploads, r)
    /\ IF cfgMounted
       THEN /\ error' = UploadError(r)
            /\ uploadingExcel' = UploadingExcelAfterFinally
       ELSE UNCHANGED <<error, uploadingExcel>>
    /\ UNCHANGED <<cfgMounted, cfgTableVars, nDeletes, cfgExcelTables, cfgExcelGets,
                   cfgExcelDeletes, nUploads, srvVars, chatVars, vizVars>>

\* The section of the Excel files without the upload button ...
ConfigExcelNext ==
    \/ \E r \in DOMAIN cfgExcelGets : CfgServeExcel(r)
    \/ \E r \in DOMAIN cfgExcelGets : LoadExcelTablesSettled(r)
    \/ \E n \in ExcelNames, confirmed \in BOOLEAN : DeleteExcelTable(n, confirmed)
    \/ \E r \in DOMAIN cfgExcelDeletes : CfgServeExcelDelete(r)
    \/ \E r \in DOMAIN cfgExcelDeletes : DeleteExcelTableSettled(r)

\* ... and the upload button.
ConfigUploadNext ==
    \/ \E hasFile \in BOOLEAN : HandleExcelUpload(hasFile)
    \/ \E r \in DOMAIN cfgUploads : CfgServeUpload(r)
    \/ \E r \in DOMAIN cfgUploads : UploadOk(r)
    \/ \E r \in DOMAIN cfgUploads : UploadFailed(r)

\* The section of the PostgreSQL tables without the delete buttons.
ConfigAddNext ==
    \/ \E n \in PgNames : SelectTable(n)
    \/ AddTable
    \/ \E r \in DOMAIN cfgAdds : CfgServeAdd(r)
    \/ \E r \in DOMAIN cfgAdds : AddTableOk(r)
    \/ \E r \in DOMAIN cfgAdds : AddTableFailed(r)
    \/ PollTick
    \/ \E r \in DOMAIN cfgTableGets : CfgServeTables(r)
    \/ \E r \in DOMAIN cfgTableGets : LoadTablesSettled(r)
    \/ \E r \in DOMAIN cfgAvailGets : CfgServeAvailable(r)
    \/ \E r \in DOMAIN cfgAvailGets : LoadAvailableSettled(r)

SrvNext ==
    \/ \E n \in ExcelNames : SrvExcelExpire(n)
    \/ \E n \in PgNames : SrvAnalysisDone(n)

----------------------------------------------------------------------------
\* Chart inference: frontend/src/App.js, determineChartType and
\* DataVisualization.  A rowset is a sequence of records; a record is the
\* sequence of its [col, val] properties in insertion order; a value is written
\* as its JSON text, so "7" is the number 7 and "\"7\"" the string "7".

JsValues ==
    {"7", "2024", "null", "true", "\"\"", "\"7\"", "\"abc\"", "\"2024-01-01\"",
     "\"constructor\""}

\* typeof v
TypeOf(v) == CASE v \in {"7", "2024"} -> "number"
               [] v = "null" -> "object"
               [] v = "true" -> "boolean"
               [] OTHER -> "string"

\* isNaN(v): v is converted with Number(v); null, true and "" convert to 0, 1
\* and 0.
IsNaN(v) == v \in {"\"abc\"", "\"2024-01-01\"", "\"constructor\""}

\* isNaN(Date.parse(v)): v is converted with String(v).  The code evaluates it
\* for categorical values only.
DateParseIsNaN(v) == v \notin {"2024", "\"2024-01-01\""}

\* String(v), the property key a value is stored under
ToKey(v) == CASE v \in {"7", "\"7\""} -> "7"
              [] v = "2024" -> "2024"
              [] v = "null" -> "null"
              [] v = "true" -> "true"
              [] v = "\"\"" -> ""
              [] v = "\"abc\"" -> "abc"
              [] v = "\"2024-01-01\"" -> "2024-01-01"
              [] v = "\"constructor\"" -> "constructor"

\* The keys that are array indices: Object.keys lists them first, in ascending
\* numeric order, before the other keys in insertion order.
IsIndexKey(k) == k \in {"7", "2024"}

IndexOfKey(k) == IF k = "7" THEN 7 ELSE 2024

\* The keys every object literal inherits from Object.prototype: reading one
\* from {} gives a function, not undefined.
IsInheritedKey(k) == k = "constructor"

\* Object.keys(record)
ObjectKeys(record) == [i \in DOMAIN record |-> record[i].col]

\* record[k]; the model reads own properties only
Get(record, k) == record[CHOOSE i \in DOMAIN record : record[i].col = k].val

\* determineChartType returns null
NoChart == [type |-> "null", x |-> "", y |-> "", category |-> ""]

\* The row count up to which a bar or a pie chart is chosen.
MaxBarRows == 10

FewRowsOffByOne(rows) == Len(rows) <= MaxBarRows + 1

FewRowsOnFirstRender(rows) == vizStep = "given" /\ Len(rows) <= MaxBarRows

FewRowsStrict(rows) == Len(rows) < MaxBarRows

\* data.length <= 10
FewRows(rows) == Len(rows) <= MaxBarRows

\* !isNaN(data[0][col]) && typeof data[0][col] !== 'boolean'
IsNumericValue(v) == ~IsNaN(v) /\ TypeOf(v) # "boolean"

IsCategoricalOrDateValue(v) ==
    IsNaN(v) \/ TypeOf(v) = "boolean" \/ ~DateParseIsNaN(v)

\* isNaN(data[0][col]) || typeof data[0][col] === 'boolean'
IsCategoricalValue(v) == IsNaN(v) \/ TypeOf(v) = "boolean"

numericColumns(rows) ==
    SelectSeq(ObjectKeys(rows[1]), LAMBDA col : IsNumericValue(Get(rows[1], col)))

categoricalColumns(rows) ==
    SelectSeq(ObjectKeys(rows[1]), LAMBDA col : IsCategoricalValue(Get(rows[1], col)))

NoDateColumns(rows) == <<>>

DateColumnsWhenLeading(rows) ==
    IF /\ categoricalColumns(rows) # <<>>
       /\ ~DateParseIsNaN(Get(rows[1], categoricalColumns(rows)[1]))
    THEN <<categoricalColumns(rows)[1]>>
    ELSE <<>>

possibleDateColumns(rows) ==
    SelectSeq(categoricalColumns(rows), LAMBDA col : ~DateParseIsNaN(Get(rows[1], col)))

determineChartType(rows) ==
    IF rows = <<>> THEN NoChart
    ELSE IF possibleDateColumns(rows) # <<>> /\ numericColumns(rows) # <<>>
    THEN [type |-> "line", x |-> possibleDateColumns(rows)[1],
          y |-> numericColumns(rows)[1], category |-> ""]
    ELSE IF categoricalColumns(rows) # <<>> /\ numericColumns(rows) # <<>>
    THEN [type |-> IF FewRows(rows) THEN "bar" ELSE "line",
          x |-> categoricalColumns(rows)[1], y |-> numericColumns(rows)[1],
          category |-> ""]
    ELSE IF categoricalColumns(rows) # <<>> /\ FewRows(rows)
    THEN [type |-> "pie", x |-> "", y |-> "", category |-> categoricalColumns(rows)[1]]
    ELSE NoChart

\* The values of the categories object.  A number n is [number |-> TRUE,
\* n |-> n]; [number |-> FALSE, n |-> n] is the string that `+ 1` makes of an
\* inherited function, with n digits 1 appended.
FirstCount(key) == [number |-> ~IsInheritedKey(key), n |-> 1]

\* (categories[cat] || 0) + 1 for a key the object has
NextCount(count) == [count EXCEPT !.n = count.n + 1]

\* categories after the rows i.. have been counted; categories is the sequence
\* of the object's own [key, count] properties in insertion order
RECURSIVE CountFrom(_, _, _, _)
CountFrom(rows, col, i, categories) ==
    IF i > Len(rows) THEN categories
    ELSE LET key == ToKey(Get(rows[i], col))
             own == {j \in DOMAIN categories : categories[j].key = key}
         IN CountFrom(rows, col, i + 1,
                IF own = {}
                THEN Append(categories, [key |-> key, count |-> FirstCount(key)])
                ELSE [j \in DOMAIN categories |->
                        IF j \in own
                        THEN [categories[j] EXCEPT !.count = NextCount(categories[j].count)]
                        ELSE categories[j]])

\* The index keys of an object in ascending order
RECURSIVE SortByIndex(_)
SortByIndex(entries) ==
    IF entries = <<>> THEN <<>>
    ELSE LET least == CHOOSE j \in DOMAIN entries :
                        \A m \in DOMAIN entries :
                           IndexOfKey(entries[j].key) <= IndexOfKey(entries[m].key)
         IN <<entries[least]>>
            \o SortByIndex(SelectSeq(entries, LAMBDA e : e.key # entries[least].key))

\* The order in which Object.keys and Object.values list the properties
PropertyOrder(categories) ==
    SortByIndex(SelectSeq(categories, LAMBDA e : IsIndexKey(e.key)))
    \o SelectSeq(categories, LAMBDA e : ~IsIndexKey(e.key))

NothingRendered ==
    [shown |-> FALSE, component |-> "", labels |-> <<>>, values |-> <<>>,
     counts |-> <<>>]

\* getChartData
getChartData(rows, chartInfo) ==
    IF chartInfo.type = "pie"
    THEN LET categories == PropertyOrder(CountFrom(rows, chartInfo.category, 1, <<>>))
         IN [shown |-> TRUE, component |-> "pie",
             labels |-> [i \in DOMAIN categories |-> categories[i].key],
             values |-> <<>>,
             counts |-> [i \in DOMAIN categories |-> categories[i].count]]
    ELSE [shown |-> TRUE, component |-> chartInfo.type,
          labels |-> [i \in DOMAIN rows |-> Get(rows[i], chartInfo.x)],
          values |-> [i \in DOMAIN rows |-> Get(rows[i], chartInfo.y)],
          counts |-> <<>>]

DataVisualizationAlways(rows, chartInfo) == [NothingRendered EXCEPT !.shown = TRUE]

\* DataVisualization: nothing without a chartInfo
DataVisualization(rows, chartInfo) ==
    IF chartInfo = NoChart THEN NothingRendered ELSE getChartData(rows, chartInfo)

\* The rowsets of the model: a first record of up to MaxCols columns with any
\* values, up to MaxTail further records that differ from it in the first
\* column, and then copies of the last record up to a row count on either side
\* of MaxBarRows.
MaxCols == 3
MaxTail == 1

Cols == <<"a", "b", "c", "d", "e">>

FirstRecords(maxCols) ==
    UNION {{[i \in 1..n |-> [col |-> Cols[i], val |-> vs[i]]] : vs \in [1..n -> JsValues]} :
             n \in 0..maxCols}

WithFirst(record, v) ==
    [i \in DOMAIN record |-> IF i = 1 THEN [record[i] EXCEPT !.val = v] ELSE record[i]]

Tails(maxTail) == UNION {[1..n -> JsValues] : n \in 0..maxTail}

Pad(rows, n) == [i \in 1..n |-> IF i <= Len(rows) THEN rows[i] ELSE rows[Len(rows)]]

RowsetsFrom(first, tail) ==
    LET rows == <<first>> \o [i \in DOMAIN tail |-> WithFirst(first, tail[i])]
    IN {rows, Pad(rows, MaxBarRows), Pad(rows, MaxBarRows + 1)}

RowsetInputs(maxCols, maxTail) ==
    {<<>>} \cup UNION {RowsetsFrom(first, tail) :
                         first \in FirstRecords(maxCols), tail \in Tails(maxTail)}

\* A render of a bot message evaluates determineChartType(message.data) ...
DetermineChartType ==
    /\ vizStep = "given"
    /\ vizChartInfo' = determineChartType(vizData)
    /\ vizStep' = "inferred"
    /\ UNCHANGED <<vizData, vizChart, srvVars, chatVars, cfgVars>>

\* ... and then DataVisualization with its result.
RenderDataVisualization ==
    /\ vizStep = "inferred"
    /\ vizChart' = DataVisualization(vizData, vizChartInfo)
    /\ vizStep' = "rendered"
    /\ UNCHANGED <<vizData, vizChartInfo, srvVars, chatVars, cfgVars>>

\* Any later state change of Chat renders the message again: both are
\* evaluated once more on the same message.data.
RerenderBotMessage ==
    /\ vizStep = "rendered"
    /\ vizChartInfo' = determineChartType(vizData)
    /\ vizChart' = DataVisualization(vizData, determineChartType(vizData))
    /\ vizStep' = "rerendered"
    /\ UNCHANGED <<vizData, srvVars, chatVars, cfgVars>>

VizNext ==
    \/ DetermineChartType
    \/ RenderDataVisualization
    \/ RerenderBotMessage

----------------------------------------------------------------------------
\* The state after a view has been mounted and its mount effects have run.

ChatIdle ==
    /\ chatMounted = FALSE
    /\ messages = <<>>
    /\ input = ""
    /\ isLoading = FALSE
    /\ availableTables = <<>>
    /\ excelTables = <<>>
    /\ expandedMessages = {}
    /\ chatInterval = FALSE
    /\ chatPosts = EmptyBag
    /\ chatTableGets = EmptyBag
    /\ chatExcelGets = EmptyBag
    /\ nSubmits = 0
    /\ nChatTicks = 0

CfgIdle ==
    /\ cfgMounted = FALSE
    /\ tables = <<>>
    /\ cfgAvailableTables = <<>>
    /\ selectedTable = ""
    /\ loadingStates = NoLoadingStates
    /\ addingTable = FALSE
    /\ pollInterval = FALSE
    /\ cfgTableGets = EmptyBag
    /\ cfgAvailGets = EmptyBag
    /\ cfgAdds = EmptyBag
    /\ cfgDeletes = EmptyBag
    /\ nPollTicks = 0
    /\ nAdds = 0
    /\ nDeletes = 0
    /\ cfgExcelTables = <<>>
    /\ cfgExcelGets = EmptyBag
    /\ cfgExcelDeletes = EmptyBag
    /\ uploadingExcel = FALSE
    /\ error = NoError
    /\ cfgUploads = EmptyBag
    /\ nUploads = 0

VizIdle ==
    /\ vizData = <<>>
    /\ vizChartInfo = NoChart
    /\ vizChart = NothingRendered
    /\ vizStep = "idle"

\* Chat is mounted: loadTables and loadExcelTables are called and the 30 s
\* interval is set.
InitChat ==
    /\ srvOrder = <<"t1", "t2">>
    /\ srvDesc = [n \in PgNames |-> "ready"]
    /\ srvExcel = <<"x1">>
    /\ chatMounted = TRUE
    /\ messages = <<>>
    /\ input = ""
    /\ isLoading = FALSE
    /\ availableTables = <<>>
    /\ excelTables = <<>>
    /\ expandedMessages = {}
    /\ chatInterval = TRUE
    /\ chatPosts = EmptyBag
    /\ chatTableGets = BagAdd(EmptyBag, SentGet("mount"))
    /\ chatExcelGets = BagAdd(EmptyBag, SentGet("mount"))
    /\ nSubmits = 0
    /\ nChatTicks = 0
    /\ CfgIdle
    /\ VizIdle

\* TableConfig is mounted: loadTables and loadAvailableTables are called; no
\* table is marked as being analyzed, so no polling interval is set.
InitConfig ==
    /\ srvOrder \in {<<"t1">>, <<"t1", "t2">>}
    /\ srvDesc \in [PgNames -> {"absent", "analyzing", "ready"}]
    /\ \A n \in PgNames : srvDesc[n] # "absent" <=> InSeq(n, srvOrder)
    /\ srvExcel = <<>>
    /\ cfgMounted = TRUE
    /\ tables = <<>>
    /\ cfgAvailableTables = <<>>
    /\ selectedTable = ""
    /\ loadingStates = NoLoadingStates
    /\ addingTable = FALSE
    /\ pollInterval = FALSE
    /\ cfgTableGets = BagAdd(EmptyBag, SentGet("mount"))
    /\ cfgAvailGets = BagAdd(EmptyBag, SentGet("mount"))
    /\ cfgAdds = EmptyBag
    /\ cfgDeletes = EmptyBag
    /\ nPollTicks = 0
    /\ nAdds = 0
    /\ nDeletes = 0
    /\ cfgExcelTables = <<>>
    /\ cfgExcelGets = EmptyBag
    /\ cfgExcelDeletes = EmptyBag
    /\ uploadingExcel = FALSE
    /\ error = NoError
    /\ cfgUploads = EmptyBag
    /\ nUploads = 0
    /\ ChatIdle
    /\ VizIdle

\* One lifetime of either view.
Init == InitChat \/ InitConfig

Next == ChatNext \/ ConfigNext \/ SrvNext

Spec == Init /\ [][Next]_vars

\* One rendering of a bot message whose rows are any rowset of RowsetInputs.
InitViz ==
    /\ srvOrder = <<>>
    /\ srvDesc = [n \in PgNames |-> "absent"]
    /\ srvExcel = <<>>
    /\ ChatIdle
    /\ CfgIdle
    /\ vizData \in RowsetInputs(MaxCols, MaxTail)
    /\ vizChartInfo = NoChart
    /\ vizChart = NothingRendered
    /\ vizStep = "given"

SpecViz == InitViz /\ [][VizNext]_vars

\* TableConfig is mounted, with its section of the Excel files: loadTables,
\* loadAvailableTables and loadExcelTables are called.  One table is configured
\* and one spreadsheet has been uploaded.
InitConfigExcel ==
    /\ srvOrder = <<"t1">>
    /\ srvDesc = [n \in PgNames |-> IF n = "t1" THEN "ready" ELSE "absent"]
    /\ srvExcel = <<"x1">>
    /\ cfgMounted = TRUE
    /\ tables = <<>>
    /\ cfgAvailableTables = <<>>
    /\ selectedTable = ""
    /\ loadingStates = NoLoadingStates
    /\ addingTable = FALSE
    /\ pollInterval = FALSE
    /\ cfgTableGets = BagAdd(EmptyBag, SentGet("mount"))
    /\ cfgAvailGets = BagAdd(EmptyBag, SentGet("mount"))
    /\ cfgAdds = EmptyBag
    /\ cfgDeletes = EmptyBag
    /\ nPollTicks = 0
    /\ nAdds = 0
    /\ nDeletes = 0
    /\ cfgExcelTables = <<>>
    /\ cfgExcelGets = BagAdd(EmptyBag, SentGet("mount"))
    /\ cfgExcelDeletes = EmptyBag
    /\ uploadingExcel = FALSE
    /\ error = NoError
    /\ cfgUploads = EmptyBag
    /\ nUploads = 0
    /\ ChatIdle
    /\ VizIdle

\* One lifetime of the configuration view with both of its sections.
SpecConfigExcel == InitConfigExcel /\ [][ConfigNext \/ ConfigExcelNext \/ SrvNext]_vars

\* One lifetime of the section of the PostgreSQL tables in which the user adds
\* tables and deletes none, and the polling interval fires as long as it is
\* set.  The interval fires when it is due,
\* the service answers every request and the browser runs every continuation:
\* each is weakly fair.
PollingNext ==
    \/ \E n \in PgNames : SelectTable(n)
    \/ AddTable
    \/ \E r \in DOMAIN cfgAdds : CfgServeAdd(r)
    \/ \E r \in DOMAIN cfgAdds : AddTableOk(r)
    \/ \E r \in DOMAIN cfgAdds : AddTableFailed(r)
    \/ PollTickUnbounded
    \/ \E r \in DOMAIN cfgTableGets : CfgServeTables(r)
    \/ \E r \in DOMAIN cfgTableGets : LoadTablesSettled(r)
    \/ \E r \in DOMAIN cfgAvailGets : CfgServeAvailable(r)
    \/ \E r \in DOMAIN cfgAvailGets : LoadAvailableSettled(r)
    \/ CfgUnmount
    \/ \E n \in PgNames : SrvAnalysisDone(n)

PollingFairness ==
    /\ WF_vars(PollTickUnbounded)
    /\ WF_vars(\E r \in DOMAIN cfgTableGets : CfgServeTables(r))
    /\ WF_vars(\E r \in DOMAIN cfgTableGets : LoadTablesSettled(r))

SpecPolling == InitConfig /\ [][PollingNext]_vars /\ PollingFairness

\* One lifetime of the configuration view in which the user works in the
\* section of the Excel files only.
UploadNext ==
    \/ ConfigExcelNext
    \/ ConfigUploadNext
    \/ CfgUnmount
    \/ \E n \in ExcelNames : SrvExcelExpire(n)

SpecUpload == InitConfigExcel /\ [][UploadNext]_vars

\* One lifetime of either view in which the user asks questions, adds tables
\* and uploads spreadsheets, and deletes nothing.
RequestsNext ==
    \/ ChatNext
    \/ ConfigAddNext
    \/ \E r \in DOMAIN cfgExcelGets : CfgServeExcel(r)
    \/ \E r \in DOMAIN cfgExcelGets : LoadExcelTablesSettled(r)
    \/ ConfigUploadNext
    \/ CfgUnmount
    \/ SrvNext

SpecRequests == (InitChat \/ InitConfigExcel) /\ [][RequestsNext]_vars

----------------------------------------------------------------------------
\* Properties.

SelectedIn(list, n) == \E i \in DOMAIN list : list[i].name = n /\ list[i].selected

PresentIn(list, n) == \E i \in DOMAIN list : list[i].name = n

\* A submit event: blank, rejected or dispatched.
SubmitStep == nSubmits' = nSubmits + 1

\* C1: a catalog refresh of the chat view never deselects a resource that is
\* still in the applied snapshot: when loadTables or loadExcelTables applies a
\* response, every resource that was selected and is still listed afterwards is
\* still selected.
C1_RefreshKeepsSelection ==
    [][((\E r \in DOMAIN chatExcelGets : ChatLoadExcelSettled(r))
        \/ (\E r \in DOMAIN chatTableGets : ChatLoadTablesSettled(r)))
       => \A n \in PgNames \cup ExcelNames :
            /\ (SelectedIn(excelTables, n) /\ PresentIn(excelTables', n))
                  => SelectedIn(excelTables', n)
            /\ (SelectedIn(availableTables, n) /\ PresentIn(availableTables', n))
                  => SelectedIn(availableTables', n)]_vars

\* C2, as stated: every submit while nothing is selected sends no chat request
\* and appends exactly one error entry with the fixed text.
C2_EverySubmitWithoutSelection ==
    [][(SubmitStep /\ AllSelectedTables = <<>>)
       => /\ chatPosts' = chatPosts
          /\ messages' = Append(messages, ErrorMessage(NoSelectionText))]_vars

\* C2, amended: every submit of a question that is not blank while nothing is
\* selected sends no chat request and appends exactly one error entry with the
\* fixed text.
C2_NonBlankSubmitWithoutSelection ==
    [][(SubmitStep /\ AllSelectedTables = <<>> /\ Trim(input) # "")
       => /\ chatPosts' = chatPosts
          /\ messages' = Append(messages, ErrorMessage(NoSelectionText))]_vars

C2_Witness ==
    /\ nSubmits > 0
    /\ messages # <<>>
    /\ messages[Len(messages)] = ErrorMessage(NoSelectionText)
    /\ chatPosts = EmptyBag

\* C3: at most one chat request is in flight, and while the view is mounted the
\* form controls are disabled exactly while one is.
C3_OneChatRequestInFlight ==
    /\ BagSize(chatPosts) <= 1
    /\ chatMounted => (isLoading <=> BagSize(chatPosts) = 1)

C3_Witness ==
    /\ BagSize(chatPosts) = 1
    /\ isLoading
    /\ nSubmits = 2
    /\ Len(messages) >= 3


\* C4: a configured table that is shown as ready is not shown as pending again
\* while it stays in the displayed catalog.
C4_ReadyStaysReady ==
    [][\A n \in PgNames :
         (PresentIn(tables, n) /\ ~Pending(loadingStates, n) /\ PresentIn(tables', n))
            => ~Pending(loadingStates', n)]_vars

\* C5: in the mounted configuration view the polling interval is armed exactly
\* when some pending flag is true.
C5_PollingIffPending ==
    cfgMounted => (pollInterval <=> HasLoadingTables(loadingStates))

C5_Witness ==
    /\ cfgMounted
    /\ nPollTicks > 0
    /\ ~pollInterval
    /\ tables # <<>>

\* C6: handling a failed catalog fetch changes no catalog, no selection and no
\* pending flag, and leaves the timers as they were.
C6_FailedFetchChangesNothing ==
    [][/\ (\E r \in DOMAIN cfgTableGets : r.phase = "fail" /\ LoadTablesSettled(r))
          => UNCHANGED <<tables, loadingStates, pollInterval, cfgAvailableTables,
                         selectedTable>>
       /\ (\E r \in DOMAIN chatExcelGets : r.phase = "fail" /\ ChatLoadExcelSettled(r))
          => UNCHANGED <<excelTables, availableTables, chatInterval>>]_vars

\* A poll has failed while the timer is armed and a catalog is displayed.
C6_Witness ==
    /\ cfgMounted
    /\ pollInterval
    /\ tables # <<>>
    /\ \E r \in DOMAIN cfgTableGets : r.phase = "fail" /\ r.origin = "poll"

\* C7: no timer of an unmounted view is armed.
C7_NoTimerAfterTeardown ==
    /\ ~chatMounted => ~chatInterval
    /\ ~cfgMounted => ~pollInterval

\* The configuration view was torn down after its polling timer had fired, and
\* a fetch of that timer is still in flight.
C7_Witness ==
    /\ ~cfgMounted
    /\ nPollTicks > 0
    /\ \E r \in DOMAIN cfgTableGets : r.origin = "poll"

\* C8: never two fetches of the persistent-resource catalog in flight at once.
C8_NoConcurrentCatalogFetches == BagSize(cfgTableGets) <= 1

\* The fields of an entry other than its visibility flag.
Core(m) == [type |-> m.type, content |-> m.content, sql |-> m.sql, data |-> m.data]

\* C9: while the chat view is mounted the log only grows at its end: every entry
\* keeps its index, role, text, query and rows.
C9_LogAppendOnly ==
    [][chatMounted'
       => /\ Len(messages') >= Len(messages)
          /\ \A i \in DOMAIN messages : Core(messages'[i]) = Core(messages[i])]_vars

C9_Witness ==
    /\ Len(messages) >= 4
    /\ \E i \in DOMAIN messages : messages[i].showSql
    /\ expandedMessages # {}

\* The entry the claim expects for the outcome o; present(o) says whether the
\* failure counts as carrying a detail message.
ExpectedEntry(o, present) ==
    IF o.phase = "ok"
    THEN [type |-> "bot", content |-> o.answer, sql |-> o.sql_query, data |-> o.data,
          showSql |-> FALSE]
    ELSE [type |-> "error", content |-> IF present THEN o.detail ELSE GenericErrorText,
          sql |-> "", data |-> <<>>, showSql |-> FALSE]

\* C10, as stated: the handling of a request's outcome appends exactly one
\* entry: the answer, or an error with the detail message when the failure
\* carries one and the generic text otherwise.
C10_OneEntryPerRequest ==
    [][\A r \in DOMAIN chatPosts, o \in Outcomes :
         (chatMounted /\ ChatSettled(r, o))
            => messages' = Append(messages, ExpectedEntry(o, o.hasDetail))]_vars

\* C10, amended: the error carries the detail message when the failure carries
\* one that is not empty, and the generic text otherwise.
C10_OneEntryPerRequestNonEmptyDetail ==
    [][\A r \in DOMAIN chatPosts, o \in Outcomes :
         (chatMounted /\ ChatSettled(r, o))
            => messages' = Append(messages,
                                  ExpectedEntry(o, o.hasDetail /\ o.detail # ""))]_vars

C10_Witness ==
    /\ chatPosts = EmptyBag
    /\ \E i \in DOMAIN messages :
         messages[i].type = "error" /\ messages[i].content = "Table not found"
    /\ \E i \in DOMAIN messages : messages[i].type = "bot"

\* The sequence s lists the selected resources of the catalog list, each once,
\* no other name, in the order of the catalog.
IsOrderedSelection(s, list) ==
    /\ \A i \in DOMAIN s : SelectedIn(list, s[i])
    /\ \A j \in DOMAIN list :
         list[j].selected => Cardinality({i \in DOMAIN s : s[i] = list[j].name}) = 1
    /\ \A i1, i2 \in DOMAIN s :
         i1 < i2 => \E j1, j2 \in DOMAIN list :
                       j1 < j2 /\ list[j1].name = s[i1] /\ list[j2].name = s[i2]

\* C11: the request a submit dispatches carries the question text as typed and
\* a list of names made of the selected persistent resources in catalog order
\* followed by the selected ephemeral resources in catalog order, every selected
\* resource once and no unselected one.
C11_RequestCarriesSelection ==
    [][(SubmitStep /\ chatPosts' # chatPosts)
       => \E r \in DOMAIN chatPosts' :
            /\ chatPosts' = BagAdd(chatPosts, r)
            /\ r.message = input
            /\ \E k \in 0..Len(r.tables) :
                 /\ IsOrderedSelection(SubSeq(r.tables, 1, k), availableTables)
                 /\ IsOrderedSelection(SubSeq(r.tables, k + 1, Len(r.tables)),
                                       excelTables)]_vars

\* A request is in flight for the untrimmed text, with one of two persistent
\* resources and the ephemeral one selected.
C11_Witness ==
    \E r \in DOMAIN chatPosts :
        /\ r.message = " q "
        /\ r.tables = <<"t2", "x1">>
        /\ Len(availableTables) = 2

\* C12: applying a fetched snapshot is idempotent: in the state a catalog fetch
\* leaves behind, applying the same snapshot once more gives the same catalog,
\* the same selection and the same pending flags.
C12_MergeIdempotent ==
    [][/\ \A r \in DOMAIN chatExcelGets :
            (chatMounted /\ r.phase = "ok" /\ ChatLoadExcelSettled(r))
               => ChatExcelFrom(r.data)' = excelTables'
       /\ \A r \in DOMAIN chatTableGets :
            (chatMounted /\ r.phase = "ok" /\ ChatLoadTablesSettled(r))
               => ChatTablesFrom(r.data)' = availableTables'
       /\ \A r \in DOMAIN cfgTableGets :
            (cfgMounted /\ r.phase = "ok" /\ LoadTablesSettled(r))
               => /\ tables' = r.data
                  /\ LoadingStatesFrom(r.data)' = loadingStates']_vars

\* A snapshot has been applied, the user has selected its resource, and a
\* second response carrying the same snapshot is about to be applied.
C12_Witness ==
    /\ chatMounted
    /\ \E r \in DOMAIN chatExcelGets :
         /\ r.phase = "ok"
         /\ r.data # <<>>
         /\ Len(excelTables) = Len(r.data)
         /\ \A i \in DOMAIN excelTables :
              excelTables[i] = [ChatExcelFrom(r.data)[i] EXCEPT !.selected = TRUE]

\* The rowset has been given to determineChartType.
Inferred == vizStep \in {"inferred", "rendered", "rerendered"}

\* The columns of the first record, and how the specification classifies them.
FirstRecordCols == {vizData[1][i].col : i \in DOMAIN vizData[1]}

IsNumericCol(c) == IsNumericValue(Get(vizData[1], c))

IsCategoricalCol(c) == IsCategoricalValue(Get(vizData[1], c))

IsDateLikeCol(c) == IsCategoricalCol(c) /\ ~DateParseIsNaN(Get(vizData[1], c))

IsPlainCol(c) == IsCategoricalCol(c) /\ DateParseIsNaN(Get(vizData[1], c))

\* C13: for a rowset that is not empty and whose first record has exactly one
\* date-like categorical column D and exactly one numeric column N,
\* determineChartType returns a line chart with x = D and y = N, in either order
\* of the columns and for every row count.
C13_DateAndNumberGiveLine ==
    (Inferred /\ vizData # <<>>)
       => \A D, N \in FirstRecordCols :
             (/\ IsDateLikeCol(D)
              /\ IsNumericCol(N)
              /\ \A c \in FirstRecordCols : IsDateLikeCol(c) => c = D
              /\ \A c \in FirstRecordCols : IsNumericCol(c) => c = N)
                => vizChartInfo = [type |-> "line", x |-> D, y |-> N, category |-> ""]

\* Ten rows, the numeric column before the date-like one.
C13_Witness ==
    /\ Inferred
    /\ Len(vizData) = 10
    /\ vizData[1] = <<[col |-> "a", val |-> "7"], [col |-> "b", val |-> "\"2024-01-01\""]>>
    /\ vizChartInfo.type = "line"

\* C14: for a rowset whose first record has one categorical column C, which is
\* not date-like, and one numeric column N, determineChartType returns a bar
\* chart with x = C and y = N for 1 to 10 rows and a line chart with x = C and
\* y = N for 11 rows or more.
C14_PlainAndNumberGiveBarOrLine ==
    (Inferred /\ vizData # <<>>)
       => \A C, N \in FirstRecordCols :
             (/\ IsPlainCol(C)
              /\ IsNumericCol(N)
              /\ \A c \in FirstRecordCols : IsCategoricalCol(c) => c = C
              /\ \A c \in FirstRecordCols : IsNumericCol(c) => c = N)
                => vizChartInfo = [type |-> IF Len(vizData) <= 10 THEN "bar" ELSE "line",
                                   x |-> C, y |-> N, category |-> ""]

\* Eleven rows of a text column and a number column.
C14_Witness ==
    /\ Inferred
    /\ Len(vizData) = 11
    /\ vizData[1] = <<[col |-> "a", val |-> "\"abc\""], [col |-> "b", val |-> "7"]>>
    /\ vizChartInfo = [type |-> "line", x |-> "a", y |-> "b", category |-> ""]

\* The number of rows whose value of column c is stored under the key k.
RowsWithKey(c, k) == Cardinality({i \in DOMAIN vizData : ToKey(Get(vizData[i], c)) = k})

RECURSIVE SumOfCounts(_)
SumOfCounts(counts) ==
    IF counts = <<>> THEN 0 ELSE counts[1].n + SumOfCounts(Tail(counts))

\* C15: for a rowset of 1 to 10 rows whose first record has a single
\* categorical column and no numeric column, determineChartType returns a pie
\* chart on that column, and the counts rendered for it are numbers that sum to
\* the row count, each the number of rows with the category of its slice.
C15_PieCountsSumToRowCount ==
    (vizStep = "rendered" /\ Len(vizData) \in 1..10)
       => \A C \in FirstRecordCols :
             (IsCategoricalCol(C) /\ FirstRecordCols = {C})
                => /\ vizChartInfo = [type |-> "pie", x |-> "", y |-> "", category |-> C]
                   /\ vizChart.shown
                   /\ \A i \in DOMAIN vizChart.counts :
                        /\ vizChart.counts[i].number
                        /\ vizChart.counts[i].n = RowsWithKey(C, vizChart.labels[i])
                   /\ SumOfCounts(vizChart.counts) = Len(vizData)

\* C16: for a rowset that is empty, or whose first record has no categorical
\* and no numeric column, determineChartType returns null and DataVisualization
\* renders nothing.
C16_NoColumnsNoChart ==
    (vizData = <<>>
      \/ \A c \in FirstRecordCols : ~IsCategoricalCol(c) /\ ~IsNumericCol(c))
       => /\ Inferred => vizChartInfo = NoChart
          /\ vizStep = "rendered" => vizChart = NothingRendered

\* Rows that are records without any column have been rendered.
C16_Witness ==
    /\ vizStep = "rendered"
    /\ Len(vizData) = 2
    /\ vizData[1] = <<>>
    /\ vizChart = NothingRendered

\* A click on the add button.
AddStep == nAdds' = nAdds + 1

\* C17: an add whose chosen name is empty or is in the displayed catalog of
\* configured tables at the time of the click sends no add request.
C17_NoAddForConfiguredName ==
    [][(AddStep /\ (selectedTable = "" \/ IsConfigured(selectedTable)))
          => cfgAdds' = cfgAdds]_vars

\* C18: when the add request for a name was accepted, the mounted view marks the
\* name pending in the step that starts the catalog refresh, and that step
\* starts exactly one refresh; when the request failed, no flag changes and no
\* refresh is started.
C18_AcceptedAddMarksAndRefreshesOnce ==
    [][\A r \in DOMAIN cfgAdds :
         /\ (cfgMounted /\ AddTableOk(r))
               => /\ Pending(loadingStates', r.name)
                  /\ cfgTableGets' = BagAdd(cfgTableGets, SentGet("add"))
         /\ AddTableFailed(r) => UNCHANGED <<loadingStates, cfgTableGets>>]_vars

\* The add of t2 was accepted: t2 is marked pending before any catalog showed
\* it, and the refresh of the add has been sent and not answered yet.
C18_Witness ==
    /\ cfgMounted
    /\ nAdds = 1
    /\ Pending(loadingStates, "t2")
    /\ ~PresentIn(tables, "t2")
    /\ SentGet("add") \in DOMAIN cfgTableGets
    /\ cfgAdds = EmptyBag

\* The requests of a bag that have been sent and not handled by the service.
SentIn(bag) == SumOver(bag, {r \in DOMAIN bag : r.phase = "sent"})

\* C19: a remove request, for a table or for a spreadsheet, is sent only by a
\* click whose confirmation the user answered with yes; a click whose
\* confirmation was declined sends nothing and changes no state of the view.
C19_NoRemoveWithoutConfirmation ==
    [][/\ SentIn(cfgDeletes') > SentIn(cfgDeletes)
             => \E n \in PgNames : DeleteTable(n, TRUE)
       /\ SentIn(cfgExcelDeletes') > SentIn(cfgExcelDeletes)
             => \E n \in ExcelNames : DeleteExcelTable(n, TRUE)
       /\ ((\E n \in PgNames : DeleteTable(n, FALSE))
            \/ (\E n \in ExcelNames : DeleteExcelTable(n, FALSE)))
             => UNCHANGED <<cfgMounted, cfgTableVars, cfgExcelVars, srvVars>>]_vars

\* The removal of a displayed spreadsheet was confirmed and its request is on
\* its way.
C19_Witness ==
    /\ cfgMounted
    /\ nDeletes = 1
    /\ PresentInCatalog(cfgExcelTables, "x1")
    /\ SentCall("x1") \in DOMAIN cfgExcelDeletes

\* C20: the handling of a remove request that succeeded starts one refresh of
\* the catalog of its kind; the handling of one that failed starts no refresh
\* and changes no catalog, no pending flag and no list of available names.
C20_RemoveRefreshesOnSuccessOnly ==
    [][/\ \A r \in DOMAIN cfgDeletes :
            DeleteTableSettled(r)
               => IF r.phase = "ok"
                  THEN cfgTableGets' = BagAdd(cfgTableGets, SentGet("delete"))
                  ELSE UNCHANGED <<cfgTableGets, cfgAvailGets, cfgExcelGets, tables,
                                   loadingStates, cfgAvailableTables, cfgExcelTables>>
       /\ \A r \in DOMAIN cfgExcelDeletes :
            DeleteExcelTableSettled(r)
               => IF r.phase = "ok"
                  THEN cfgExcelGets' = BagAdd(cfgExcelGets, SentGet("delete"))
                  ELSE UNCHANGED <<cfgTableGets, cfgAvailGets, cfgExcelGets, tables,
                                   loadingStates, cfgAvailableTables, cfgExcelTables>>]_vars

\* The removal of a table has failed and is about to be handled, while the view
\* displays the table and the names that can be added.
C20_Witness ==
    /\ cfgMounted
    /\ PresentInCatalog(tables, "t1")
    /\ cfgAvailableTables # <<>>
    /\ \E r \in DOMAIN cfgDeletes : r.phase = "fail" /\ r.name = "t1"
    /\ InSeq("t1", srvOrder)

\* C25: chart inference is a function of the rowset alone.  A second
\* evaluation on the same rowset, in a later render, gives the same chartInfo
\* and the same chart; and every rowset with the same first record and the
\* same row count gets the same chart type and the same x, y and category.
SameFirstRecordAndCount(rows) ==
    IF rows = <<>> THEN {<<>>}
    ELSE {rs \in UNION {RowsetsFrom(rows[1], tail) : tail \in Tails(MaxTail)} :
            Len(rs) = Len(rows)}

ColIndex(c) == CHOOSE i \in DOMAIN vizData[1] : vizData[1][i].col = c

\* C27: whenever the first record has a date-like column and a numeric column,
\* determineChartType returns a line chart with x = the first date-like column
\* and y = the first numeric column, whatever other columns the record has and
\* whatever the row count, also with a plain categorical column in front of
\* the date-like one and 10 rows or fewer.
C27_LineOverDateWins ==
    (Inferred /\ vizData # <<>>)
       => \A D, N \in FirstRecordCols :
             (/\ IsDateLikeCol(D)
              /\ IsNumericCol(N)
              /\ \A c \in FirstRecordCols : IsDateLikeCol(c) => ColIndex(D) <= ColIndex(c)
              /\ \A c \in FirstRecordCols : IsNumericCol(c) => ColIndex(N) <= ColIndex(c))
                => vizChartInfo = [type |-> "line", x |-> D, y |-> N, category |-> ""]

\* Ten rows whose first record has a text column, then a date, then a number.
C27_Witness ==
    /\ Inferred
    /\ Len(vizData) = 10
    /\ vizData[1] = <<[col |-> "a", val |-> "\"abc\""],
                      [col |-> "b", val |-> "\"2024-01-01\""],
                      [col |-> "c", val |-> "7"]>>
    /\ vizChartInfo = [type |-> "line", x |-> "b", y |-> "c", category |-> ""]

\* The members of a list of columns.
ColsIn(list) == {list[i] : i \in DOMAIN list}

\* The first value of column c converts to a number and parses as a date.
ParsesAsNumberAndDate(c) ==
    /\ ~IsNaN(Get(vizData[1], c))
    /\ TypeOf(Get(vizData[1], c)) # "boolean"
    /\ ~DateParseIsNaN(Get(vizData[1], c))

\* C28: every column of the first record is in exactly one of numericColumns
\* and categoricalColumns, possibleDateColumns is drawn from
\* categoricalColumns only, and a column whose first value parses as a number
\* and as a date is numeric and is not the x column of the chart.
C28_ClassificationIsAPartition ==
    (Inferred /\ vizData # <<>>)
       => /\ \A c \in FirstRecordCols :
                (c \in ColsIn(numericColumns(vizData)))
                   <=> (c \notin ColsIn(categoricalColumns(vizData)))
          /\ ColsIn(possibleDateColumns(vizData)) \subseteq ColsIn(categoricalColumns(vizData))
          /\ \A c \in FirstRecordCols :
                ParsesAsNumberAndDate(c)
                   => /\ c \in ColsIn(numericColumns(vizData))
                      /\ c \notin ColsIn(possibleDateColumns(vizData))
                      /\ vizChartInfo.x # c

\* The number 2024 before a text column: a bar chart of the text column.
C28_Witness ==
    /\ Inferred
    /\ vizData # <<>>
    /\ vizData[1] = <<[col |-> "a", val |-> "2024"], [col |-> "b", val |-> "\"abc\""]>>
    /\ Len(vizData) = 1
    /\ vizChartInfo = [type |-> "bar", x |-> "b", y |-> "a", category |-> ""]

\* The keys under which the values of column c are stored, each once, in the
\* order of the rows in which they first occur, from row i on.
RECURSIVE FirstOccurrences(_, _, _)
FirstOccurrences(c, i, seen) ==
    IF i > Len(vizData) THEN seen
    ELSE LET key == ToKey(Get(vizData[i], c))
         IN FirstOccurrences(c, i + 1,
                IF \E j \in DOMAIN seen : seen[j] = key THEN seen ELSE Append(seen, key))

\* C29: for every rowset rendered as a pie chart, the labels are the distinct
\* values of the category column in the order of their first occurrence in
\* the rows, and the i-th count is the number of rows with the i-th label,
\* whatever the values of the rows after the first.
C29_PieLabelsInFirstOccurrenceOrder ==
    (vizStep = "rendered" /\ vizChartInfo.type = "pie")
       => /\ vizChart.labels = FirstOccurrences(vizChartInfo.category, 1, <<>>)
          /\ DOMAIN vizChart.counts = DOMAIN vizChart.labels
          /\ \A i \in DOMAIN vizChart.counts :
                vizChart.counts[i].n = RowsWithKey(vizChartInfo.category, vizChart.labels[i])

\* axios rejects without a response (error.response is undefined): the request
\* was not delivered.
DispatchFailed(o) == o.phase = "fail" /\ ~o.hasDetail

\* C24: the question field is cleared only when a request has been dispatched
\* successfully.  A submit rejected for an empty selection leaves the text as
\* it is; after a request whose dispatch failed the field still holds the text
\* that was submitted; and handling a response leaves the field as it is.
C24_InputClearedOnlyOnSuccessfulDispatch ==
    [][/\ (SubmitStep /\ Trim(input) # "" /\ AllSelectedTables = <<>>)
            => input' = input
       /\ \A r \in DOMAIN chatPosts : \A o \in Outcomes :
            (chatMounted /\ ChatSettled(r, o))
               => IF DispatchFailed(o) THEN input' = r.message ELSE input' = input]_vars

\* C26: overlapping fetches of one catalog are all kept in flight until their
\* responses are handled, and each response that is applied replaces what the
\* view shows: after loadTables of the configuration view applies a response,
\* the tables and the pending flags are those of that response and of nothing
\* else, and after loadExcelTables of the chat view applies one, the listed
\* spreadsheets are those of that response; the other fetches stay in flight.
C26_LastAppliedResponseWins ==
    [][/\ \A r \in DOMAIN cfgTableGets :
            (cfgMounted /\ r.phase = "ok" /\ LoadTablesSettled(r))
               => /\ tables' = r.data
                  /\ DOMAIN loadingStates' = {r.data[i].name : i \in DOMAIN r.data}
                  /\ \A i \in DOMAIN r.data :
                        loadingStates'[r.data[i].name] = (r.data[i].description = Sentinel)
                  /\ cfgTableGets' = BagRemove(cfgTableGets, r)
       /\ \A r \in DOMAIN chatExcelGets :
            (chatMounted /\ r.phase = "ok" /\ ChatLoadExcelSettled(r))
               => /\ Len(excelTables') = Len(r.data)
                  /\ \A i \in DOMAIN r.data :
                        /\ excelTables'[i].name = r.data[i].name
                        /\ excelTables'[i].original_filename = r.data[i].original_filename
                        /\ excelTables'[i].expires_at = r.data[i].expires_at
                  /\ chatExcelGets' = BagRemove(chatExcelGets, r)
       /\ BagSize(cfgTableGets') < BagSize(cfgTableGets)
            => \E r \in DOMAIN cfgTableGets : LoadTablesSettled(r)
       /\ BagSize(chatExcelGets') < BagSize(chatExcelGets)
            => \E r \in DOMAIN chatExcelGets : ChatLoadExcelSettled(r)]_vars

\* The fetch sent at mount is still in flight with its response, and the
\* response of a fetch sent after it has been applied already; the two carry
\* different catalogs and different pending flags.
C26_Witness ==
    /\ cfgMounted
    /\ tables # <<>>
    /\ \E r \in DOMAIN cfgTableGets :
         /\ r.origin = "mount"
         /\ r.phase = "ok"
         /\ r.data # tables
         /\ \E i \in DOMAIN r.data :
              Pending(loadingStates, r.data[i].name) # (r.data[i].description = Sentinel)

UploadStep == nUploads' = nUploads + 1

\* handleExcelUpload without a file sends nothing and changes nothing.
UploadWithoutFileChangesNothing ==
    (UploadStep /\ cfgUploads' = cfgUploads)
       => UNCHANGED <<srvVars, chatVars, cfgMounted, cfgTableVars, nDeletes,
                      cfgExcelTables, cfgExcelGets, cfgExcelDeletes, uploadingExcel, error>>

\* A successful upload calls loadExcelTables and marks no table as being
\* analyzed.
UploadOkRefreshes ==
    \A r \in DOMAIN cfgUploads :
       (r.phase = "ok" /\ UploadOk(r))
          => /\ cfgExcelGets' = BagAdd(cfgExcelGets, SentGet("upload"))
             /\ loadingStates' = loadingStates

\* C21, as stated: an upload without a file sends nothing and changes nothing;
\* a successful one triggers a refresh of the spreadsheet catalog and marks
\* nothing as pending; a failed one sets the visible error to the detail of
\* the backend when there is one and to the generic text otherwise, and
\* triggers no refresh.
C21_UploadCases ==
    [][/\ UploadWithoutFileChangesNothing
       /\ UploadOkRefreshes
       /\ \A r \in DOMAIN cfgUploads :
            (cfgMounted /\ r.phase = "fail" /\ UploadFailed(r))
               => /\ error' = IF r.hasDetail THEN r.detail ELSE UploadErrorText
                  /\ cfgExcelGets' = cfgExcelGets]_vars

\* C21, amended: as above, with the detail shown when there is one and it is
\* not the empty text.
C21_UploadCasesNonEmptyDetail ==
    [][/\ UploadWithoutFileChangesNothing
       /\ UploadOkRefreshes
       /\ \A r \in DOMAIN cfgUploads :
            (cfgMounted /\ r.phase = "fail" /\ UploadFailed(r))
               => /\ error' = IF r.hasDetail /\ r.detail # "" THEN r.detail
                               ELSE UploadErrorText
                  /\ cfgExcelGets' = cfgExcelGets]_vars

\* An upload has failed with a detail, which is shown; nothing is in flight.
C21_Witness ==
    /\ cfgMounted
    /\ nUploads = 1
    /\ error = "Table not found"
    /\ ~uploadingExcel
    /\ cfgUploads = EmptyBag
    /\ cfgExcelGets = EmptyBag

\* C22: every failed chat submit, upload or add leaves an error where the user
\* sees it: a failed chat submit appends an error entry and a failed upload
\* sets the inline error, each with the detail of the backend or else its
\* generic text, and after a failed add the inline error is set.
C22_EveryFailureIsShown ==
    [][/\ \A r \in DOMAIN chatPosts : \A o \in Outcomes :
            (chatMounted /\ o.phase = "fail" /\ ChatSettled(r, o))
               => messages' = Append(messages, ErrorMessage(DetailOr(o, GenericErrorText)))
       /\ \A r \in DOMAIN cfgUploads :
            (cfgMounted /\ r.phase = "fail" /\ UploadFailed(r))
               => error' = DetailOr(r, UploadErrorText)
       /\ \A r \in DOMAIN cfgAdds :
            (cfgMounted /\ r.phase = "fail" /\ AddTableFailed(r))
               => error' # NoError]_vars

\* C23: when a chat submit, an add or an upload has failed, its busy flag is
\* false again, and a chat request, an add or an upload is sent in a step of
\* the user only (a submit, an add click, a file choice), never by the
\* handling of a failure or by a timer.
C23_FailureClearsBusyFlagAndNoResend ==
    [][/\ \A r \in DOMAIN chatPosts : \A o \in Outcomes :
            (chatMounted /\ o.phase = "fail" /\ ChatSettled(r, o)) => ~isLoading'
       /\ \A r \in DOMAIN cfgAdds :
            (cfgMounted /\ r.phase = "fail" /\ AddTableFailed(r)) => ~addingTable'
       /\ \A r \in DOMAIN cfgUploads :
            (cfgMounted /\ r.phase = "fail" /\ UploadFailed(r)) => ~uploadingExcel'
       /\ BagSize(chatPosts') > BagSize(chatPosts) => SubmitStep
       /\ BagSize(cfgAdds') > BagSize(cfgAdds) => AddStep
       /\ BagSize(cfgUploads') > BagSize(cfgUploads) => UploadStep]_vars

\* An add and an upload have both failed: nothing is in flight, t2 is still
\* not configured, the upload error is shown and both buttons are enabled.
C23_Witness ==
    /\ cfgMounted
    /\ nAdds = 1
    /\ cfgAdds = EmptyBag
    /\ srvDesc["t2"] = "absent"
    /\ selectedTable = "t2"
    /\ ~addingTable
    /\ nUploads = 1
    /\ cfgUploads = EmptyBag
    /\ error = UploadErrorText
    /\ ~uploadingExcel

\* The backend reports every configured table with a description other than
\* the sentinel, and no catalog fetch of the view has failed.
BackendReadyAndFetchesSucceed ==
    /\ \A n \in PgNames : srvDesc[n] # "analyzing"
    /\ \A r \in DOMAIN cfgTableGets : r.phase # "fail"

\* C30: polling terminates.  If from some point on the backend reports no
\* table with the sentinel description and the catalog fetches succeed, then
\* from some point on the polling interval is not set, so no polling fetch is
\* issued any more (the adds, which set it again, are finitely many).
C30_PollingTerminates ==
    (<>[]BackendReadyAndFetchesSucceed) => <>[](~pollInterval)

\* The view has polled, the analysis of the added table t2 is done and has
\* been seen: the interval is cleared and no fetch is in flight.
C30_Witness ==
    /\ cfgMounted
    /\ nAdds = 1
    /\ nPollTicks >= 1
    /\ BackendReadyAndFetchesSucceed
    /\ IsConfigured("t2")
    /\ ~Pending(loadingStates, "t2")
    /\ ~pollInterval
    /\ cfgTableGets = EmptyBag

\* C31: determineChartType returns null exactly when the rowset is empty, or
\* the first record has no categorical column (numeric columns only, or no
\* column, at any row count), or the first record has no numeric column and
\* there are more than 10 rows.
C31_NoChartExactlyWhen ==
    Inferred
       => ((vizChartInfo = NoChart)
             <=> \/ vizData = <<>>
                 \/ \A c \in FirstRecordCols : ~IsCategoricalCol(c)
                 \/ /\ \A c \in FirstRecordCols : ~IsNumericCol(c)
                    /\ Len(vizData) > 10)

\* Eleven rows of one text column: no chart.
C31_Witness ==
    /\ Inferred
    /\ Len(vizData) = 11
    /\ vizData[1] = <<[col |-> "a", val |-> "\"abc\""]>>
    /\ vizChartInfo = NoChart

\* C32: a submit of a question that is empty or only whitespace does nothing:
\* no entry is appended, no request is sent, and the question field, the
\* loading flag and the selection stay as they are, with or without a
\* selected resource.
C32_BlankSubmitIsNoOp ==
    [][(SubmitStep /\ Trim(input) = "")
       => UNCHANGED <<messages, chatPosts, input, isLoading, availableTables,
                      excelTables>>]_vars

\* Two submits of a whitespace question with a table selected: nothing was
\* appended or sent and the text is still in the field.
C32_Witness ==
    /\ chatMounted
    /\ nSubmits = 2
    /\ input = "  "
    /\ AllSelectedTables # <<>>
    /\ messages = <<>>
    /\ chatPosts = EmptyBag
    /\ ~isLoading

\* The log of the mounted chat view: no two user entries are adjacent, every
\* user entry but the last is followed by a bot entry or by an error entry
\* that is not the no-selection one, and the last entry is a user entry
\* exactly while a request is in flight.
TurnStructure ==
    chatMounted
       => /\ \A i \in DOMAIN messages :
               (messages[i].type = "user" /\ i < Len(messages))
                  => /\ messages[i + 1].type \in {"bot", "error"}
                     /\ messages[i + 1] # ErrorMessage(NoSelectionText)
          /\ (messages # <<>> /\ messages[Len(messages)].type = "user")
                <=> BagSize(chatPosts) = 1

\* C33: in every reachable state of the chat view the log has the turn
\* structure above, and the answer or error of a request is appended directly
\* after the user entry of that request.
C33_StrictTurnStructure ==
    [][/\ TurnStructure'
       /\ \A r \in DOMAIN chatPosts : \A o \in Outcomes :
            (chatMounted /\ ChatSettled(r, o))
               => /\ messages[Len(messages)] = UserMessage(r.message)
                  /\ messages' = Append(messages, SystemMessage(Outcome(r, o)))]_vars

\* A question has been answered and the next one is in flight.
C33_Witness ==
    /\ chatMounted
    /\ Len(messages) = 3
    /\ messages[1].type = "user"
    /\ messages[2].type = "bot"
    /\ messages[3].type = "user"
    /\ BagSize(chatPosts) = 1

====
